---- MODULE Spec2Model ----
(***************************************************************************)
(* A model of ArrayPtr (array_ptr.h) and SimpleVector (simple_vector.h).   *)
(*                                                                         *)
(* The heap is a map from block ids to the array stored in the block; a    *)
(* free block holds the empty array (new Type[0] is never executed: the    *)
(* ArrayPtr(size_t) constructor stores nullptr for size 0).  Raw pointers  *)
(* are block ids, nullptr is 0.  Positions inside a block are 0-based, as  *)
(* in the source.                                                          *)
(*                                                                         *)
(* Two element types are modelled (typeKind): a trivial type such as int,  *)
(* whose move is a copy and whose new[] leaves the slots indeterminate,    *)
(* and a class type such as std::string, whose new[] default-constructs    *)
(* the slots and whose move leaves the moved-from object empty, i.e. equal *)
(* to Type().                                                              *)
(***************************************************************************)
EXTENDS Integers, Sequences, FiniteSets

\* Bounds of the model.
MaxCap == 4        \* largest array new[] serves when the program has one vector
MaxCapPair == 2    \* largest array new[] serves when the program has two vectors
MaxCapPtr == 2     \* largest array new[] serves to a free-standing ArrayPtr
NumBlocks == 4     \* heap block ids available

\* Type() of the element type; the element values are Type() and one other.
DefaultValue == 0
Values == {DefaultValue, 1}
Vecs == {"a", "b"}         \* the SimpleVector objects of the program
Ptrs == {"p", "q"}         \* the free-standing ArrayPtr objects of the program
BlockIds == 1..NumBlocks
nullptr == 0

VARIABLES
    typeKind,   \* the element type: "trivial" or "class"
    heap,       \* block id -> the array in the block, <<>> when the block is free
    vec,        \* SimpleVector object -> its fields items_, capacity_, size_
    live,       \* the SimpleVector objects that are constructed and not yet destroyed
    ptr,        \* free-standing ArrayPtr object -> its raw_ptr_
    plive,      \* the free-standing ArrayPtr objects that are constructed
    released,   \* raw pointers handed to the caller by Release()
    last        \* the operation that produced this state, its arguments and result
vars == <<typeKind, heap, vec, live, ptr, plive, released, last>>

Max(x, y) == IF x >= y THEN x ELSE y

----------------------------------------------------------------------------
(* Memory *)

\* i is a valid 0-based position of the block p points to.
InBlock(h, p, i) == p # nullptr /\ i >= 0 /\ i < Len(h[p])

\* raw_ptr_[index], read.
Rd(h, p, i) == IF InBlock(h, p, i) THEN h[p][i + 1] ELSE DefaultValue

\* raw_ptr_[index] = val.  A write outside the block does not change the
\* block; what it does instead is decided by the caller (see Stray).
Wr(h, p, i, val) == IF InBlock(h, p, i) THEN [h EXCEPT ![p][i + 1] = val] ELSE h

\* The arrays new Type[n] may return: indeterminate slots for a trivial type,
\* default-constructed slots for a class type.
NewArray(n) ==
    IF typeKind = "trivial"
    THEN [1..n -> Values]
    ELSE {[i \in 1..n |-> DefaultValue]}

FreeIds(h) == {b \in BlockIds : h[b] = <<>>}
FreeBlock(h) == CHOOSE b \in FreeIds(h) : \A c \in FreeIds(h) : b <= c

\* new Type[n] can be served by the model, whose largest array is lim.
CanAlloc(h, n, lim) == n = 0 \/ (n <= lim /\ FreeIds(h) # {})

\* *dst = std::move(*src) for one element.
MoveElem(h, sp, si, dp, di) ==
    LET h1 == Wr(h, dp, di, Rd(h, sp, si))
    IN IF typeKind = "class" /\ ~(sp = dp /\ si = di)
       THEN Wr(h1, sp, si, DefaultValue)
       ELSE h1

\* *dst = *src for one element.
CopyElem(h, sp, si, dp, di) == Wr(h, dp, di, Rd(h, sp, si))

\* std::copy(src + first, src + last, dst + dfirst)
RECURSIVE Copy(_, _, _, _, _, _)
Copy(h, sp, first, last_, dp, dfirst) ==
    IF first >= last_ THEN h
    ELSE Copy(CopyElem(h, sp, first, dp, dfirst), sp, first + 1, last_, dp, dfirst + 1)

\* std::copy_backward(src + first, src + last, dst + dlast)
RECURSIVE CopyBackward(_, _, _, _, _, _)
CopyBackward(h, sp, first, last_, dp, dlast) ==
    IF first >= last_ THEN h
    ELSE CopyBackward(CopyElem(h, sp, last_ - 1, dp, dlast - 1),
                      sp, first, last_ - 1, dp, dlast - 1)

\* std::move(src + first, src + last, dst + dfirst)
RECURSIVE Move(_, _, _, _, _, _)
Move(h, sp, first, last_, dp, dfirst) ==
    IF first >= last_ THEN h
    ELSE Move(MoveElem(h, sp, first, dp, dfirst), sp, first + 1, last_, dp, dfirst + 1)

\* std::move_backward(src + first, src + last, dst + dlast)
RECURSIVE MoveBackward(_, _, _, _, _, _)
MoveBackward(h, sp, first, last_, dp, dlast) ==
    IF first >= last_ THEN h
    ELSE MoveBackward(MoveElem(h, sp, last_ - 1, dp, dlast - 1),
                      sp, first, last_ - 1, dp, dlast - 1)

\* std::fill(p + first, p + last, value)
RECURSIVE StdFill(_, _, _, _, _)
StdFill(h, p, first, last_, value) ==
    IF first >= last_ THEN h
    ELSE StdFill(Wr(h, p, first, value), p, first + 1, last_, value)

\* std::copy(init.begin(), init.end(), p) for an initializer list.
RECURSIVE CopyList(_, _, _, _)
CopyList(h, init, p, k) ==
    IF k >= Len(init) THEN h
    ELSE CopyList(Wr(h, p, k, init[k + 1]), init, p, k + 1)

\* Some position of [first, last) lies outside the block p points to.
OutOfBlock(h, p, first, last_) == \E i \in first..(last_ - 1) : ~InBlock(h, p, i)

\* Where a write past the end of block p can land: in the allocator's slack
\* (<<0, 0>>, no modelled effect) or in a slot of another allocated block.
Strays(h, p, oob) ==
    {<<nullptr, 0>>} \cup
    (IF oob
     THEN {bi \in BlockIds \X (0..(MaxCap - 1)) : bi[1] # p /\ InBlock(h, bi[1], bi[2])}
     ELSE {})

Stray(h, s, val) == Wr(h, s[1], s[2], val)

----------------------------------------------------------------------------
(* ArrayPtr *)

\* ArrayPtr(size_t size)
ArrayPtrNew(h, size, junk) ==
    IF size = 0
    THEN [heap |-> h, raw_ptr_ |-> nullptr]
    ELSE LET b == FreeBlock(h)
         IN  [heap |-> [h EXCEPT ![b] = SubSeq(junk, 1, size)], raw_ptr_ |-> b]

\* delete[] raw_ptr_
DeleteArray(h, raw) == IF raw = nullptr THEN h ELSE [h EXCEPT ![raw] = <<>>]

\* delete[] of a block that is not allocated (freed before).
BadDelete(h, raw) == raw # nullptr /\ h[raw] = <<>>

\* ArrayPtr(ArrayPtr&& other): the values of this->raw_ptr_ and other.raw_ptr_ after it.
ArrayPtrMoveCtor(other_raw) == [this |-> other_raw, other |-> other_raw]

\* Mutant of ArrayPtrMoveAssign: the array held before is not deleted.
ArrayPtrMoveAssignNoDelete(h, this_raw, other_raw) ==
    [heap |-> h, this |-> other_raw, other |-> nullptr]

\* operator=(ArrayPtr&& other), this != &other
ArrayPtrMoveAssign(h, this_raw, other_raw) ==
    [heap |-> DeleteArray(h, this_raw), this |-> other_raw, other |-> nullptr]

\* Release()
ArrayPtrRelease(this_raw) == [ret |-> this_raw, this |-> nullptr]

\* swap(ArrayPtr& other)
ArrayPtrSwap(this_raw, other_raw) == [this |-> other_raw, other |-> this_raw]

----------------------------------------------------------------------------
(* SimpleVector: the operations as functions of the heap h and the object o *)

\* The default member initializers of items_, capacity_ and size_.
EmptyObj == [items_ |-> nullptr, capacity_ |-> 0, size_ |-> 0]

\* What an operation yields: the heap, the object, the returned position,
\* whether it touched a position outside a block (oob), whether an assert
\* of the source failed (af), whether it deleted a block twice (dfree).
Result(h, o, ret, oob, af, dfree) ==
    [heap |-> h, o |-> o, ret |-> ret, oob |-> oob, af |-> af, dfree |-> dfree]

\* Mutants of GrowCapacity: the doubling without the max, and no doubling.
GrowCapacityNoMax(need, capacity_) == capacity_ * 2
GrowCapacityExact(need, capacity_) == need

\* std::max(new_size, capacity_ * 2), std::max(size_ + 1, capacity_ * 2)
GrowCapacity(need, capacity_) == Max(need, capacity_ * 2)

\* Fill(first, last): the loop that writes Type() to [first, last).
RECURSIVE Fill(_, _, _, _)
Fill(h, p, first, last_) ==
    IF first >= last_ THEN h
    ELSE Fill(Wr(h, p, first, DefaultValue), p, first + 1, last_)

\* assert(first < last) of Fill
FillAssert(first, last_) == first < last_

\* The size Resize leaves after its first if.
ResizeShrink(new_size, size_) == IF new_size <= size_ THEN new_size ELSE size_

\* The last position (exclusive) of the in-place Fill of Resize.
ResizeFillEnd(size_, new_size) == size_ + new_size

\* Resize(new_size)
ResizeOp(h, o, new_size, junk) ==
    LET size1 == ResizeShrink(new_size, o.size_)
        inplace == new_size <= o.capacity_
        fend == ResizeFillEnd(size1, new_size)
        h1 == IF inplace THEN Fill(h, o.items_, size1, fend) ELSE h
        af1 == inplace /\ ~FillAssert(size1, fend)
        oob1 == inplace /\ OutOfBlock(h, o.items_, size1, fend)
    IN  IF new_size > o.capacity_
        THEN LET new_capacity == GrowCapacity(new_size, o.capacity_)
                 temp == ArrayPtrNew(h1, new_capacity, junk)
                 h2 == Fill(temp.heap, temp.raw_ptr_, 0, new_capacity)
                 h3 == Move(h2, o.items_, 0, o.capacity_, temp.raw_ptr_, 0)
                 sw == ArrayPtrSwap(o.items_, temp.raw_ptr_)
             IN  Result(DeleteArray(h3, sw.other),
                        [items_ |-> sw.this, capacity_ |-> new_capacity, size_ |-> new_size],
                        0,
                        oob1 \/ OutOfBlock(temp.heap, temp.raw_ptr_, 0, new_capacity)
                             \/ OutOfBlock(h2, o.items_, 0, o.capacity_)
                             \/ OutOfBlock(h2, temp.raw_ptr_, 0, o.capacity_),
                        af1 \/ ~FillAssert(0, new_capacity),
                        BadDelete(h3, sw.other))
        ELSE Result(h1, [o EXCEPT !.size_ = size1], 0, oob1, af1, FALSE)

\* The array Resize asks new[] for (0: none).
ResizeAlloc(o, new_size) ==
    IF new_size > o.capacity_ THEN GrowCapacity(new_size, o.capacity_) ELSE 0

\* PushBack(const Type& item)
PushBackOp(h, o, item, junk) ==
    IF o.size_ < o.capacity_
    THEN Result(Wr(h, o.items_, o.size_, item), [o EXCEPT !.size_ = o.size_ + 1], 0,
                ~InBlock(h, o.items_, o.size_), FALSE, FALSE)
    ELSE IF o.size_ = o.capacity_
    THEN LET r == ResizeOp(h, o, o.capacity_ + 1, junk)
         IN  [r EXCEPT !.heap = Wr(r.heap, r.o.items_, r.o.size_ - 1, item),
                       !.oob = r.oob \/ ~InBlock(r.heap, r.o.items_, r.o.size_ - 1)]
    ELSE Result(h, o, 0, FALSE, FALSE, FALSE)

\* PushBack(Type&& item)
PushBackMoveOp(h, o, item, junk) ==
    IF o.size_ < o.capacity_
    THEN Result(Wr(h, o.items_, o.size_, item), [o EXCEPT !.size_ = o.size_ + 1], 0,
                ~InBlock(h, o.items_, o.size_), FALSE, FALSE)
    ELSE IF o.size_ = o.capacity_
    THEN LET r == ResizeOp(h, o, o.capacity_ + 1, junk)
         IN  [r EXCEPT !.heap = Wr(r.heap, r.o.items_, r.o.size_ - 1, item),
                       !.oob = r.oob \/ ~InBlock(r.heap, r.o.items_, r.o.size_ - 1)]
    ELSE Result(h, o, 0, FALSE, FALSE, FALSE)

\* The array PushBack asks new[] for (0: none).
PushBackAlloc(o) ==
    IF o.size_ = o.capacity_ THEN ResizeAlloc(o, o.capacity_ + 1) ELSE 0

\* assert(pos >= begin() && pos <= end()), with pos = begin() + count
InsertAssert(o, count) == count >= 0 /\ count <= o.size_

\* Insert(ConstIterator pos, const Type& value), pos = begin() + count
InsertOp(h, o, count, value, junk) ==
    IF o.size_ < o.capacity_
    THEN LET h1 == CopyBackward(h, o.items_, count, o.size_, o.items_, o.size_ + 1)
             h2 == Wr(h1, o.items_, count, value)
         IN  Result(h2, [o EXCEPT !.size_ = o.size_ + 1], count,
                    OutOfBlock(h, o.items_, count, o.size_ + 1),
                    ~InsertAssert(o, count), FALSE)
    ELSE LET new_capacity == GrowCapacity(o.size_ + 1, o.capacity_)
             temp == ArrayPtrNew(h, new_capacity, junk)
             h1 == Copy(temp.heap, o.items_, 0, count, temp.raw_ptr_, 0)
             h2 == Wr(h1, temp.raw_ptr_, count, value)
             h3 == Copy(h2, o.items_, count, o.size_, temp.raw_ptr_, count + 1)
             sw == ArrayPtrSwap(o.items_, temp.raw_ptr_)
         IN  Result(DeleteArray(h3, sw.other),
                    [items_ |-> sw.this, capacity_ |-> new_capacity, size_ |-> o.size_ + 1],
                    count,
                    OutOfBlock(temp.heap, o.items_, 0, o.size_)
                        \/ OutOfBlock(temp.heap, temp.raw_ptr_, 0, o.size_ + 1),
                    ~InsertAssert(o, count),
                    BadDelete(h3, sw.other))

\* Insert(ConstIterator pos, Type&& value), pos = items_.Get() + count
InsertMoveOp(h, o, count, value, junk) ==
    IF o.capacity_ = 0
    THEN LET temp == ArrayPtrNew(h, 1, junk)
             h1 == Wr(temp.heap, temp.raw_ptr_, count, value)
             sw == ArrayPtrSwap(o.items_, temp.raw_ptr_)
         IN  Result(DeleteArray(h1, sw.other),
                    [items_ |-> sw.this, capacity_ |-> o.capacity_ + 1, size_ |-> o.size_ + 1],
                    count,
                    ~InBlock(temp.heap, temp.raw_ptr_, count),
                    ~InsertAssert(o, count),
                    BadDelete(h1, sw.other))
    ELSE IF o.size_ < o.capacity_
    THEN LET h1 == MoveBackward(h, o.items_, count, o.size_, o.items_, o.size_ + 1)
             h2 == Wr(h1, o.items_, count, value)
         IN  Result(h2, [o EXCEPT !.size_ = o.size_ + 1], count,
                    OutOfBlock(h, o.items_, count, o.size_ + 1),
                    ~InsertAssert(o, count), FALSE)
    ELSE LET new_capacity == GrowCapacity(o.size_ + 1, o.capacity_)
             temp == ArrayPtrNew(h, new_capacity, junk)
             h1 == Move(temp.heap, o.items_, 0, o.size_, temp.raw_ptr_, 0)
             h2 == MoveBackward(h1, o.items_, count, o.size_, temp.raw_ptr_, o.size_ + 1)
             h3 == Wr(h2, temp.raw_ptr_, count, value)
             sw == ArrayPtrSwap(o.items_, temp.raw_ptr_)
         IN  Result(DeleteArray(h3, sw.other),
                    [items_ |-> sw.this, capacity_ |-> new_capacity, size_ |-> o.size_ + 1],
                    count,
                    OutOfBlock(temp.heap, o.items_, 0, o.size_)
                        \/ OutOfBlock(temp.heap, temp.raw_ptr_, 0, o.size_ + 1),
                    ~InsertAssert(o, count),
                    BadDelete(h3, sw.other))

\* The array Insert(const Type&) asks new[] for (0: none).
InsertAlloc(o) ==
    IF o.size_ < o.capacity_ THEN 0 ELSE GrowCapacity(o.size_ + 1, o.capacity_)

\* The array Insert(Type&&) asks new[] for (0: none).
InsertMoveAlloc(o) ==
    IF o.capacity_ = 0 THEN 1
    ELSE IF o.size_ < o.capacity_ THEN 0
    ELSE GrowCapacity(o.size_ + 1, o.capacity_)

\* assert(!IsEmpty()) of PopBack
PopBackAssert(o) == o.size_ # 0

\* PopBack()
PopBackOp(h, o) ==
    Result(h, [o EXCEPT !.size_ = o.size_ - 1], 0, FALSE, ~PopBackAssert(o), FALSE)

\* assert(pos != end()); assert(pos >= begin()), with pos = begin() + count
EraseAssert(o, count) == count # o.size_ /\ count >= 0

\* Mutant of EraseOp: the shift starts one element too late.
EraseOpLateShift(h, o, count) ==
    LET h1 == Move(h, o.items_, count + 2, o.size_, o.items_, count + 1)
    IN  Result(h1, [o EXCEPT !.size_ = o.size_ - 1], count,
               OutOfBlock(h, o.items_, count, o.size_),
               count = o.size_ \/ count < 0, FALSE)

\* Erase(ConstIterator pos), pos = items_.Get() + count
EraseOp(h, o, count) ==
    LET h1 == Move(h, o.items_, count + 1, o.size_, o.items_, count)
    IN  Result(h1, [o EXCEPT !.size_ = o.size_ - 1], count,
               OutOfBlock(h, o.items_, count, o.size_),
               ~EraseAssert(o, count), FALSE)

\* Mutant of AtOp: the index is checked against the capacity.
AtOpCapacityCheck(h, o, index) ==
    [throws |-> index >= o.capacity_,
     value |-> Rd(h, o.items_, index),
     oob |-> index < o.capacity_ /\ ~InBlock(h, o.items_, index)]

\* At(index): whether it throws std::out_of_range, the element it returns a
\* reference to otherwise, and whether that element lies outside the array.
AtOp(h, o, index) ==
    [throws |-> index >= o.size_,
     value |-> Rd(h, o.items_, index),
     oob |-> index < o.size_ /\ ~InBlock(h, o.items_, index)]

\* Clear()
ClearOp(h, o) == Result(h, [o EXCEPT !.size_ = 0], 0, FALSE, FALSE, FALSE)

\* Mutant of ReserveOp: capacity_ = new_capacity is forgotten.
ReserveOpKeepCapacity(h, o, new_capacity, junk) ==
    IF new_capacity > o.capacity_
    THEN LET temp == ArrayPtrNew(h, new_capacity, junk)
             h1 == Copy(temp.heap, o.items_, 0, o.size_, temp.raw_ptr_, 0)
         IN  Result(DeleteArray(h1, o.items_), [o EXCEPT !.items_ = temp.raw_ptr_],
                    0, FALSE, FALSE, BadDelete(h1, o.items_))
    ELSE Result(h, o, 0, FALSE, FALSE, FALSE)

\* Mutant of ReserveOp: the last live element is not copied.
ReserveOpShortCopy(h, o, new_capacity, junk) ==
    IF new_capacity > o.capacity_
    THEN LET temp == ArrayPtrNew(h, new_capacity, junk)
             h1 == Copy(temp.heap, o.items_, 0, o.size_ - 1, temp.raw_ptr_, 0)
         IN  Result(DeleteArray(h1, o.items_),
                    [o EXCEPT !.items_ = temp.raw_ptr_, !.capacity_ = new_capacity],
                    0, FALSE, FALSE, BadDelete(h1, o.items_))
    ELSE Result(h, o, 0, FALSE, FALSE, FALSE)

\* Reserve(new_capacity)
ReserveOp(h, o, new_capacity, junk) ==
    IF new_capacity > o.capacity_
    THEN LET temp == ArrayPtrNew(h, new_capacity, junk)
             h1 == IF o.size_ > 0
                   THEN Copy(temp.heap, o.items_, 0, o.size_, temp.raw_ptr_, 0)
                   ELSE temp.heap
             sw == ArrayPtrSwap(o.items_, temp.raw_ptr_)
         IN  Result(DeleteArray(h1, sw.other),
                    [o EXCEPT !.items_ = sw.this, !.capacity_ = new_capacity],
                    0,
                    OutOfBlock(temp.heap, o.items_, 0, o.size_)
                        \/ OutOfBlock(temp.heap, temp.raw_ptr_, 0, o.size_),
                    FALSE,
                    BadDelete(h1, sw.other))
    ELSE Result(h, o, 0, FALSE, FALSE, FALSE)

\* The array Reserve asks new[] for (0: none).
ReserveAlloc(o, new_capacity) ==
    IF new_capacity > o.capacity_ THEN new_capacity ELSE 0

\* swap(SimpleVector& other): this and other after it.
SwapOp(o, other) ==
    LET sw == ArrayPtrSwap(o.items_, other.items_)
    IN  [this |-> [items_ |-> sw.this, capacity_ |-> other.capacity_, size_ |-> other.size_],
         other |-> [items_ |-> sw.other, capacity_ |-> o.capacity_, size_ |-> o.size_]]

\* SimpleVector(size_t size, const Type& value)
CtorSizeValueOp(h, size, value, junk) ==
    LET items == ArrayPtrNew(h, size, junk)
    IN  Result(StdFill(items.heap, items.raw_ptr_, 0, size, value),
               [items_ |-> items.raw_ptr_, capacity_ |-> size, size_ |-> size],
               0, OutOfBlock(items.heap, items.raw_ptr_, 0, size), FALSE, FALSE)

\* SimpleVector(size_t size)
CtorSizeOp(h, size, junk) == CtorSizeValueOp(h, size, DefaultValue, junk)

\* SimpleVector(std::initializer_list<Type> init)
CtorInitListOp(h, init, junk) ==
    LET items == ArrayPtrNew(h, Len(init), junk)
    IN  Result(CopyList(items.heap, init, items.raw_ptr_, 0),
               [items_ |-> items.raw_ptr_, capacity_ |-> Len(init), size_ |-> Len(init)],
               0, OutOfBlock(items.heap, items.raw_ptr_, 0, Len(init)), FALSE, FALSE)

\* SimpleVector(const SimpleVector& other)
CtorCopyOp(h, other, junk) ==
    LET items == ArrayPtrNew(h, other.size_, junk)
    IN  Result(Copy(items.heap, other.items_, 0, other.size_, items.raw_ptr_, 0),
               [items_ |-> items.raw_ptr_, capacity_ |-> other.size_, size_ |-> other.size_],
               0,
               OutOfBlock(items.heap, other.items_, 0, other.size_)
                   \/ OutOfBlock(items.heap, items.raw_ptr_, 0, other.size_),
               FALSE, FALSE)

\* Where SimpleVector(const SimpleVector& other) can throw: in new[] (-1),
\* when it allocates, or in the copy of element k of a class type.
CtorCopyThrowPoints(other) ==
    (IF other.size_ > 0 THEN {-1} ELSE {}) \cup
    (IF typeKind = "class" THEN 0..(other.size_ - 1) ELSE {})

\* The heap after SimpleVector(const SimpleVector& other) threw at point k:
\* the elements before k were copied, and the unwinding destroys the
\* constructed member items_, which deletes the array.
CtorCopyThrowOp(h, other, junk, k) ==
    IF k < 0 THEN h
    ELSE LET items == ArrayPtrNew(h, other.size_, junk)
             h1 == Copy(items.heap, other.items_, 0, k, items.raw_ptr_, 0)
         IN  DeleteArray(h1, items.raw_ptr_)

\* SimpleVector(ReserveProxyObj obj)
CtorReserveOp(h, capacity_to_reserve, junk) ==
    ReserveOp(h, EmptyObj, capacity_to_reserve, junk)

\* The array SimpleVector(SimpleVector&& other) asks new[] for (0: none).
CtorMoveAlloc(other) == other.capacity_

\* SimpleVector(SimpleVector&& other): the heap, this and other after it.
CtorMoveOp(h, other, junk) ==
    LET items == ArrayPtrNew(h, other.capacity_, junk)
        sw == SwapOp([EmptyObj EXCEPT !.items_ = items.raw_ptr_], other)
    IN  [heap |-> items.heap, this |-> sw.this, other |-> sw.other]

\* ~SimpleVector(): ~ArrayPtr() of items_
DtorOp(h, o) ==
    Result(DeleteArray(h, o.items_), EmptyObj, 0, FALSE, FALSE, BadDelete(h, o.items_))

\* operator=(const SimpleVector& rhs), this != &rhs
CopyAssignOp(h, o, rhs, junk) ==
    LET temp == CtorCopyOp(h, rhs, junk)
        sw == SwapOp(o, temp.o)
        d == DtorOp(temp.heap, sw.other)
    IN  Result(d.heap, sw.this, 0, temp.oob, FALSE, d.dfree)

\* Mutant of CopyAssignThrowOp: the copy is built in place of the array of
\* this, which is deleted first.
CopyAssignThrowOpInPlace(h, o, rhs, junk, k) ==
    Result(CtorCopyThrowOp(DeleteArray(h, o.items_), rhs, junk, k), EmptyObj,
           0, FALSE, FALSE, BadDelete(h, o.items_))

\* operator=(const SimpleVector& rhs), this != &rhs, when the construction of
\* temp throws at point k: swap(temp) is not reached.
CopyAssignThrowOp(h, o, rhs, junk, k) ==
    Result(CtorCopyThrowOp(h, rhs, junk, k), o, 0, FALSE, FALSE, FALSE)

\* Mutant of MoveAssignOp: the counters of rhs are not reset.
MoveAssignOpNoReset(h, o, rhs) ==
    LET ma == ArrayPtrMoveAssign(h, o.items_, rhs.items_)
    IN  [heap |-> ma.heap,
         this |-> [items_ |-> ma.this, capacity_ |-> rhs.capacity_, size_ |-> rhs.size_],
         other |-> [rhs EXCEPT !.items_ = ma.other],
         dfree |-> BadDelete(h, o.items_)]

\* operator=(SimpleVector&& rhs), this != &rhs: the heap, this and rhs after it.
MoveAssignOp(h, o, rhs) ==
    LET ma == ArrayPtrMoveAssign(h, o.items_, rhs.items_)
    IN  [heap |-> ma.heap,
         this |-> [items_ |-> ma.this, capacity_ |-> rhs.capacity_, size_ |-> rhs.size_],
         other |-> [items_ |-> ma.other, capacity_ |-> 0, size_ |-> 0],
         dfree |-> BadDelete(h, o.items_)]

----------------------------------------------------------------------------
(* The state machine *)

NoLast ==
    [op |-> "Init", v |-> "-", w |-> "-", n |-> 0, x |-> DefaultValue, ret |-> 0,
     osize |-> 0, ocap |-> 0, oob |-> FALSE, af |-> FALSE, dfree |-> FALSE,
     budget |-> 0]

\* The PushBack calls still to come of the n - size_ that follow the last
\* Reserve(n) with n >= size_: set by Reserve, counted down by each PushBack,
\* 0 after any other operation.
ReserveBudget(op, n, o) ==
    IF op \in {"Reserve", "CtorReserve"}
    THEN (IF n >= o.size_ THEN n - o.size_ ELSE 0)
    ELSE IF op \in {"PushBack", "PushBackMove"} /\ last.budget > 0
    THEN last.budget - 1
    ELSE 0

\* Record the operation op on object v (and w), which yielded r.  The name
\* and the objects are recorded for the operations of env.ops; with
\* env.detail the record also holds the arguments n and x, the returned
\* position, and the size and capacity the operation found v with.
Done(op, v, w, n, x, o, r, env) ==
    last' = IF op \notin env.ops
            THEN [NoLast EXCEPT !.op = "-", !.oob = r.oob, !.af = r.af, !.dfree = r.dfree]
            ELSE IF env.detail
            THEN [op |-> op, v |-> v, w |-> w, n |-> n, x |-> x, ret |-> r.ret,
                  osize |-> o.size_, ocap |-> o.capacity_,
                  oob |-> r.oob, af |-> r.af, dfree |-> r.dfree,
                  budget |-> ReserveBudget(op, n, o)]
            ELSE [NoLast EXCEPT !.op = op, !.v = v, !.w = w,
                                !.oob = r.oob, !.af = r.af, !.dfree = r.dfree]

Init ==
    /\ typeKind \in {"trivial", "class"}
    /\ heap = [b \in BlockIds |-> <<>>]
    /\ vec = [v \in Vecs |-> EmptyObj]
    /\ live = {}
    /\ ptr = [p \in Ptrs |-> nullptr]
    /\ plive = {}
    /\ released = {}
    /\ last = NoLast

\* An operation of SimpleVector v alone that yields r.
Commit(op, v, n, x, r, env) ==
    /\ heap' = r.heap
    /\ vec' = [vec EXCEPT ![v] = r.o]
    /\ Done(op, v, "-", n, x, vec[v], r, env)
    /\ UNCHANGED <<typeKind, ptr, plive, released>>

InitLists(lim) == UNION {[1..n -> Values] : n \in 0..lim}

CtorDefault(v, env) ==
    /\ v \notin live
    /\ live' = live \cup {v}
    /\ Commit("CtorDefault", v, 0, DefaultValue, Result(heap, EmptyObj, 0, FALSE, FALSE, FALSE), env)

CtorSize(v, size, env) ==
    /\ v \notin live
    /\ CanAlloc(heap, size, env.lim)
    /\ live' = live \cup {v}
    /\ \E junk \in NewArray(size) :
          Commit("CtorSize", v, size, DefaultValue, CtorSizeOp(heap, size, junk), env)

CtorSizeValue(v, size, value, env) ==
    /\ v \notin live
    /\ CanAlloc(heap, size, env.lim)
    /\ live' = live \cup {v}
    /\ \E junk \in NewArray(size) :
          Commit("CtorSizeValue", v, size, value, CtorSizeValueOp(heap, size, value, junk), env)

CtorInitList(v, init, env) ==
    /\ v \notin live
    /\ CanAlloc(heap, Len(init), env.lim)
    /\ live' = live \cup {v}
    /\ \E junk \in NewArray(Len(init)) :
          Commit("CtorInitList", v, Len(init), DefaultValue, CtorInitListOp(heap, init, junk), env)

CtorReserve(v, capacity_to_reserve, env) ==
    /\ v \notin live
    /\ CanAlloc(heap, capacity_to_reserve, env.lim)
    /\ live' = live \cup {v}
    /\ \E junk \in NewArray(capacity_to_reserve) :
          Commit("CtorReserve", v, capacity_to_reserve, DefaultValue,
                 CtorReserveOp(heap, capacity_to_reserve, junk), env)

CtorCopy(v, w, env) ==
    /\ v \notin live /\ w \in live
    /\ CanAlloc(heap, vec[w].size_, env.lim)
    /\ live' = live \cup {v}
    /\ \E junk \in NewArray(vec[w].size_) :
          LET r == CtorCopyOp(heap, vec[w], junk)
          IN  /\ heap' = r.heap
              /\ vec' = [vec EXCEPT ![v] = r.o]
              /\ Done("CtorCopy", v, w, 0, DefaultValue, vec[w], r, env)
    /\ UNCHANGED <<typeKind, ptr, plive, released>>

CtorMove(v, w, env) ==
    /\ v \notin live /\ w \in live
    /\ CanAlloc(heap, CtorMoveAlloc(vec[w]), env.lim)
    /\ live' = live \cup {v}
    /\ \E junk \in NewArray(CtorMoveAlloc(vec[w])) :
          LET r == CtorMoveOp(heap, vec[w], junk)
          IN  /\ heap' = r.heap
              /\ vec' = [vec EXCEPT ![v] = r.this, ![w] = r.other]
              /\ Done("CtorMove", v, w, 0, DefaultValue, vec[w],
                      Result(r.heap, r.this, 0, FALSE, FALSE, FALSE), env)
    /\ UNCHANGED <<typeKind, ptr, plive, released>>

\* SimpleVector(SimpleVector&& other) when its new[] throws std::bad_alloc:
\* the exception leaves the constructor and no vector is constructed.
CtorMoveThrow(v, w, env) ==
    /\ v \notin live /\ w \in live
    /\ CtorMoveAlloc(vec[w]) > 0
    /\ Done("CtorMoveThrow", v, w, 0, DefaultValue, vec[w],
            Result(heap, vec[v], 0, FALSE, FALSE, FALSE), env)
    /\ UNCHANGED <<typeKind, heap, vec, live, ptr, plive, released>>

Dtor(v, env) ==
    /\ v \in live
    /\ live' = live \ {v}
    /\ Commit("Dtor", v, 0, DefaultValue, DtorOp(heap, vec[v]), env)

\* At(index), recorded as AtThrow when it throws; x is the element returned.
At(v, index, env) ==
    /\ v \in live
    /\ UNCHANGED live
    /\ LET r == AtOp(heap, vec[v], index)
       IN  Commit(IF r.throws THEN "AtThrow" ELSE "At", v, index,
                  IF r.throws THEN DefaultValue ELSE r.value,
                  Result(heap, vec[v], index, r.oob, FALSE, FALSE), env)

Clear(v, env) ==
    /\ v \in live
    /\ UNCHANGED live
    /\ Commit("Clear", v, 0, DefaultValue, ClearOp(heap, vec[v]), env)

Resize(v, new_size, env) ==
    /\ v \in live
    /\ CanAlloc(heap, ResizeAlloc(vec[v], new_size), env.lim)
    /\ UNCHANGED live
    /\ \E junk \in NewArray(ResizeAlloc(vec[v], new_size)) :
          LET r == ResizeOp(heap, vec[v], new_size, junk)
          IN  \E s \in Strays(r.heap, vec[v].items_, r.oob) :
                 Commit("Resize", v, new_size, DefaultValue,
                        [r EXCEPT !.heap = Stray(r.heap, s, DefaultValue)], env)

Reserve(v, new_capacity, env) ==
    /\ v \in live
    /\ CanAlloc(heap, ReserveAlloc(vec[v], new_capacity), env.lim)
    /\ UNCHANGED live
    /\ \E junk \in NewArray(ReserveAlloc(vec[v], new_capacity)) :
          Commit("Reserve", v, new_capacity, DefaultValue,
                 ReserveOp(heap, vec[v], new_capacity, junk), env)

PushBack(v, item, env) ==
    /\ v \in live
    /\ CanAlloc(heap, PushBackAlloc(vec[v]), env.lim)
    /\ UNCHANGED live
    /\ \E junk \in NewArray(PushBackAlloc(vec[v])) :
          Commit("PushBack", v, 0, item, PushBackOp(heap, vec[v], item, junk), env)

PushBackMove(v, item, env) ==
    /\ v \in live
    /\ CanAlloc(heap, PushBackAlloc(vec[v]), env.lim)
    /\ UNCHANGED live
    /\ \E junk \in NewArray(PushBackAlloc(vec[v])) :
          Commit("PushBackMove", v, 0, item, PushBackMoveOp(heap, vec[v], item, junk), env)

Insert(v, count, value, env) ==
    /\ v \in live
    /\ InsertAssert(vec[v], count)
    /\ CanAlloc(heap, InsertAlloc(vec[v]), env.lim)
    /\ UNCHANGED live
    /\ \E junk \in NewArray(InsertAlloc(vec[v])) :
          Commit("Insert", v, count, value, InsertOp(heap, vec[v], count, value, junk), env)

InsertMove(v, count, value, env) ==
    /\ v \in live
    /\ InsertAssert(vec[v], count)
    /\ CanAlloc(heap, InsertMoveAlloc(vec[v]), env.lim)
    /\ UNCHANGED live
    /\ \E junk \in NewArray(InsertMoveAlloc(vec[v])) :
          Commit("InsertMove", v, count, value,
                 InsertMoveOp(heap, vec[v], count, value, junk), env)

PopBack(v, env) ==
    /\ v \in live
    /\ PopBackAssert(vec[v])
    /\ UNCHANGED live
    /\ Commit("PopBack", v, 0, DefaultValue, PopBackOp(heap, vec[v]), env)

Erase(v, count, env) ==
    /\ v \in live
    /\ EraseAssert(vec[v], count) /\ count < vec[v].size_
    /\ UNCHANGED live
    /\ Commit("Erase", v, count, DefaultValue, EraseOp(heap, vec[v], count), env)

Swap(v, w, env) ==
    /\ v \in live /\ w \in live
    /\ LET r == SwapOp(vec[v], vec[w])
       IN  /\ vec' = (IF v = w THEN vec ELSE [vec EXCEPT ![v] = r.this, ![w] = r.other])
           /\ Done("Swap", v, w, 0, DefaultValue, vec[v],
                   Result(heap, r.this, 0, FALSE, FALSE, FALSE), env)
    /\ UNCHANGED <<typeKind, heap, live, ptr, plive, released>>

CopyAssign(v, w, env) ==
    /\ v \in live /\ w \in live
    /\ v # w => CanAlloc(heap, vec[w].size_, env.lim)
    /\ UNCHANGED live
    /\ IF v # w
       THEN \E junk \in NewArray(vec[w].size_) :
               LET r == CopyAssignOp(heap, vec[v], vec[w], junk)
               IN  /\ heap' = r.heap
                   /\ vec' = [vec EXCEPT ![v] = r.o]
                   /\ Done("CopyAssign", v, w, 0, DefaultValue, vec[v], r, env)
       ELSE /\ UNCHANGED <<heap, vec>>
            /\ Done("CopyAssign", v, w, 0, DefaultValue, vec[v],
                    Result(heap, vec[v], 0, FALSE, FALSE, FALSE), env)
    /\ UNCHANGED <<typeKind, ptr, plive, released>>

\* operator=(const SimpleVector& rhs) when the construction of temp throws.
CopyAssignThrow(v, w, k, env) ==
    /\ v \in live /\ w \in live /\ v # w
    /\ k \in CtorCopyThrowPoints(vec[w])
    /\ k >= 0 => CanAlloc(heap, vec[w].size_, env.lim)
    /\ \E junk \in NewArray(IF k < 0 THEN 0 ELSE vec[w].size_) :
          LET r == CopyAssignThrowOp(heap, vec[v], vec[w], junk, k)
          IN  /\ heap' = r.heap
              /\ vec' = [vec EXCEPT ![v] = r.o]
              /\ Done("CopyAssignThrow", v, w, 0, DefaultValue, vec[v], r, env)
    /\ UNCHANGED <<typeKind, live, ptr, plive, released>>

MoveAssign(v, w, env) ==
    /\ v \in live /\ w \in live
    /\ UNCHANGED live
    /\ IF v # w
       THEN LET r == MoveAssignOp(heap, vec[v], vec[w])
            IN  /\ heap' = r.heap
                /\ vec' = [vec EXCEPT ![v] = r.this, ![w] = r.other]
                /\ Done("MoveAssign", v, w, 0, DefaultValue, vec[v],
                        Result(r.heap, r.this, 0, FALSE, FALSE, r.dfree), env)
       ELSE /\ UNCHANGED <<heap, vec>>
            /\ Done("MoveAssign", v, w, 0, DefaultValue, vec[v],
                    Result(heap, vec[v], 0, FALSE, FALSE, FALSE), env)
    /\ UNCHANGED <<typeKind, ptr, plive, released>>

VecOps ==
    {"CtorDefault", "CtorSize", "CtorSizeValue", "CtorInitList", "CtorReserve",
     "CtorCopy", "CtorMove", "Dtor", "Clear", "Resize", "Reserve", "PushBack",
     "PushBackMove", "Insert", "InsertMove", "PopBack", "Erase", "Swap",
     "CopyAssign", "MoveAssign", "CtorMoveThrow", "CopyAssignThrow",
     "At", "AtThrow"}

\* The operations on one vector v, with arrays of at most lim elements.
Unary(v, env) ==
    \/ CtorDefault(v, env)
    \/ \E size \in 0..env.lim : CtorSize(v, size, env)
    \/ \E size \in 0..env.lim, value \in Values : CtorSizeValue(v, size, value, env)
    \/ \E init \in InitLists(env.lim) : CtorInitList(v, init, env)
    \/ \E n \in 0..env.lim : CtorReserve(v, n, env)
    \/ Dtor(v, env)
    \/ Clear(v, env)
    \/ \E index \in 0..env.lim : At(v, index, env)
    \/ \E n \in 0..env.lim : Resize(v, n, env)
    \/ \E n \in 0..env.lim : Reserve(v, n, env)
    \/ \E item \in Values : PushBack(v, item, env)
    \/ \E item \in Values : PushBackMove(v, item, env)
    \/ \E k \in 0..env.lim, value \in Values : Insert(v, k, value, env)
    \/ \E k \in 0..env.lim, value \in Values : InsertMove(v, k, value, env)
    \/ PopBack(v, env)
    \/ \E k \in 0..env.lim : Erase(v, k, env)

\* The operations of vector v that take another vector w.
Binary(v, w, env) ==
    \/ CtorCopy(v, w, env)
    \/ CtorMove(v, w, env)
    \/ CtorMoveThrow(v, w, env)
    \/ Swap(v, w, env)
    \/ CopyAssign(v, w, env)
    \/ \E k \in (-1)..(env.lim - 1) : CopyAssignThrow(v, w, k, env)
    \/ MoveAssign(v, w, env)

\* A program with the single vector a; every operation is recorded in detail.
EnvSingle == [lim |-> MaxCap, detail |-> TRUE, ops |-> VecOps]

Next == Unary("a", EnvSingle)

Spec == Init /\ [][Next]_vars

\* A program with the two vectors a and b.
EnvPair ==
    [lim |-> MaxCapPair, detail |-> FALSE,
     ops |-> {"CtorCopy", "CtorMove", "CtorMoveThrow", "Dtor", "MoveAssign",
              "CopyAssign", "CopyAssignThrow"}]

NextPair ==
    \/ \E v \in Vecs : Unary(v, EnvPair)
    \/ \E v \in Vecs, w \in Vecs : Binary(v, w, EnvPair)

SpecPair == Init /\ [][NextPair]_vars

----------------------------------------------------------------------------
(* A program of free-standing ArrayPtr objects *)

PtrOps ==
    {"PtrCtorDefault", "PtrCtorSize", "PtrCtorRaw", "PtrCtorMove", "PtrDtor",
     "PtrMoveAssign", "PtrRelease", "PtrSwap", "PtrStore", "DeleteReleased"}

EnvPtr == [lim |-> MaxCapPtr, detail |-> FALSE, ops |-> PtrOps]

PtrDone(op, p, q, dfree) ==
    Done(op, p, q, 0, DefaultValue, EmptyObj,
         Result(heap, EmptyObj, 0, FALSE, FALSE, dfree), EnvPtr)

\* ArrayPtr()
PtrCtorDefault(p) ==
    /\ p \notin plive
    /\ plive' = plive \cup {p}
    /\ ptr' = [ptr EXCEPT ![p] = nullptr]
    /\ PtrDone("PtrCtorDefault", p, "-", FALSE)
    /\ UNCHANGED <<typeKind, heap, vec, live, released>>

\* ArrayPtr(size_t size)
PtrCtorSize(p, size) ==
    /\ p \notin plive
    /\ CanAlloc(heap, size, EnvPtr.lim)
    /\ plive' = plive \cup {p}
    /\ \E junk \in NewArray(size) :
          LET r == ArrayPtrNew(heap, size, junk)
          IN  /\ heap' = r.heap
              /\ ptr' = [ptr EXCEPT ![p] = r.raw_ptr_]
    /\ PtrDone("PtrCtorSize", p, "-", FALSE)
    /\ UNCHANGED <<typeKind, vec, live, released>>

\* ArrayPtr(Type* raw_ptr), with a pointer the caller owns (or nullptr)
PtrCtorRaw(p, raw) ==
    /\ p \notin plive
    /\ raw \in released \cup {nullptr}
    /\ plive' = plive \cup {p}
    /\ ptr' = [ptr EXCEPT ![p] = raw]
    /\ released' = released \ {raw}
    /\ PtrDone("PtrCtorRaw", p, "-", FALSE)
    /\ UNCHANGED <<typeKind, heap, vec, live>>

\* ArrayPtr(ArrayPtr&& other)
PtrCtorMove(p, q) ==
    /\ p \notin plive /\ q \in plive
    /\ plive' = plive \cup {p}
    /\ LET r == ArrayPtrMoveCtor(ptr[q])
       IN  ptr' = [ptr EXCEPT ![p] = r.this, ![q] = r.other]
    /\ PtrDone("PtrCtorMove", p, q, FALSE)
    /\ UNCHANGED <<typeKind, heap, vec, live, released>>

\* ~ArrayPtr()
PtrDtor(p) ==
    /\ p \in plive
    /\ plive' = plive \ {p}
    /\ heap' = DeleteArray(heap, ptr[p])
    /\ ptr' = [ptr EXCEPT ![p] = nullptr]
    /\ PtrDone("PtrDtor", p, "-", BadDelete(heap, ptr[p]))
    /\ UNCHANGED <<typeKind, vec, live, released>>

\* operator=(ArrayPtr&& other)
PtrMoveAssign(p, q) ==
    /\ p \in plive /\ q \in plive
    /\ IF p # q
       THEN LET r == ArrayPtrMoveAssign(heap, ptr[p], ptr[q])
            IN  /\ heap' = r.heap
                /\ ptr' = [ptr EXCEPT ![p] = r.this, ![q] = r.other]
                /\ PtrDone("PtrMoveAssign", p, q, BadDelete(heap, ptr[p]))
       ELSE /\ UNCHANGED <<heap, ptr>>
            /\ PtrDone("PtrMoveAssign", p, q, FALSE)
    /\ UNCHANGED <<typeKind, vec, live, plive, released>>

\* Release(); the caller keeps the returned pointer (one pointer at a time)
PtrRelease(p) ==
    /\ p \in plive
    /\ released = {}
    /\ LET r == ArrayPtrRelease(ptr[p])
       IN  /\ ptr' = [ptr EXCEPT ![p] = r.this]
           /\ released' = released \cup ({r.ret} \ {nullptr})
    /\ PtrDone("PtrRelease", p, "-", FALSE)
    /\ UNCHANGED <<typeKind, heap, vec, live, plive>>

\* swap(ArrayPtr& other)
PtrSwap(p, q) ==
    /\ p \in plive /\ q \in plive
    /\ LET r == ArrayPtrSwap(ptr[p], ptr[q])
       IN  ptr' = (IF p = q THEN ptr ELSE [ptr EXCEPT ![p] = r.this, ![q] = r.other])
    /\ PtrDone("PtrSwap", p, q, FALSE)
    /\ UNCHANGED <<typeKind, heap, vec, live, plive, released>>

\* operator[](index) = val, with index inside the array
PtrStore(p, index, val) ==
    /\ p \in plive
    /\ InBlock(heap, ptr[p], index)
    /\ heap' = Wr(heap, ptr[p], index, val)
    /\ PtrDone("PtrStore", p, "-", FALSE)
    /\ UNCHANGED <<typeKind, vec, live, ptr, plive, released>>

\* delete[] by the caller of a pointer Release() gave it
DeleteReleased(raw) ==
    /\ raw \in released
    /\ released' = released \ {raw}
    /\ heap' = DeleteArray(heap, raw)
    /\ PtrDone("DeleteReleased", "-", "-", BadDelete(heap, raw))
    /\ UNCHANGED <<typeKind, vec, live, ptr, plive>>

NextArrayPtr ==
    \/ \E p \in Ptrs : PtrCtorDefault(p)
    \/ \E p \in Ptrs, size \in 0..MaxCapPtr : PtrCtorSize(p, size)
    \/ \E p \in Ptrs, raw \in BlockIds \cup {nullptr} : PtrCtorRaw(p, raw)
    \/ \E p \in Ptrs, q \in Ptrs : PtrCtorMove(p, q)
    \/ \E p \in Ptrs : PtrDtor(p)
    \/ \E p \in Ptrs, q \in Ptrs : PtrMoveAssign(p, q)
    \/ \E p \in Ptrs : PtrRelease(p)
    \/ \E p \in Ptrs, q \in Ptrs : PtrSwap(p, q)
    \/ \E p \in Ptrs, index \in 0..(MaxCapPtr - 1), val \in Values : PtrStore(p, index, val)
    \/ \E raw \in BlockIds : DeleteReleased(raw)

SpecArrayPtr == Init /\ [][NextArrayPtr]_vars

----------------------------------------------------------------------------
(* Properties *)

\* The live sequence [0, size_) of the object o in the heap h.
LiveSeq(h, o) == [i \in 1..o.size_ |-> Rd(h, o.items_, i - 1)]

\* The whole array of the object o in the heap h.
Block(h, o) == IF o.items_ = nullptr THEN <<>> ELSE h[o.items_]

\* operator==(lhs, rhs) of two different objects: equal sizes and std::equal
\* over [0, lhs.size_).
VecEqual(h, lhs, rhs) ==
    /\ lhs.size_ = rhs.size_
    /\ \A i \in 0..(lhs.size_ - 1) : Rd(h, lhs.items_, i) = Rd(h, rhs.items_, i)

\* s with value put before its 0-based position k.
InsertAt(s, k, value) ==
    [i \in 1..(Len(s) + 1) |->
        IF i <= k THEN s[i] ELSE IF i = k + 1 THEN value ELSE s[i - 1]]

\* s without the element at its 0-based position k.
RemoveAt(s, k) == [i \in 1..(Len(s) - 1) |-> IF i <= k THEN s[i] ELSE s[i + 1]]

\* C1: every constructed vector has size_ <= capacity_, after any sequence of
\* operations on two vectors (constructors, destructor, Resize, Reserve,
\* PushBack, PopBack, Insert, Erase, Clear, swap, copy and move assignment).
C1_SizeLeCapacity == \A v \in live : vec[v].size_ <= vec[v].capacity_

\* A vector move-constructed from a non-empty vector: it holds the elements,
\* the source is left with size 0 and capacity 0.
C1_Witness ==
    /\ last.op = "CtorMove"
    /\ vec[last.v].size_ = MaxCapPair
    /\ vec[last.w].capacity_ = 0

\* C2: no two constructed ArrayPtr objects hold the same array, and none
\* holds an array it released to the caller.
C2_SoleOwner ==
    /\ \A p \in plive, q \in plive : (p # q /\ ptr[p] # nullptr) => ptr[p] # ptr[q]
    /\ \A p \in plive : ptr[p] \notin released

\* C3: every array is freed exactly once: no operation deletes an array
\* twice, the array of a constructed vector is allocated and is the array of
\* no other vector, and every allocated array belongs to a constructed vector
\* (so none is left when every vector is destroyed).
C3_FreedExactlyOnce ==
    /\ ~last.dfree
    /\ \A v \in live : vec[v].items_ # nullptr => heap[vec[v].items_] # <<>>
    /\ \A v \in live, w \in live :
          (v # w /\ vec[v].items_ # nullptr) => vec[v].items_ # vec[w].items_
    /\ \A b \in BlockIds : heap[b] # <<>> => \E v \in live : vec[v].items_ = b

\* A vector has been destroyed while the other, the source of a move
\* construction, still holds the array the move constructor gave it (its
\* capacity is 0): that array is the only one allocated.
C3_Witness ==
    /\ last.op = "Dtor"
    /\ \E w \in live :
          /\ vec[w].capacity_ = 0
          /\ vec[w].items_ # nullptr
          /\ \A b \in BlockIds : heap[b] # <<>> <=> b = vec[w].items_

\* C4: Resize(new_size) with size < new_size <= capacity sets the size to
\* new_size, keeps the capacity and the elements [0, old size), and leaves
\* Type() in [old size, new_size).
C4_ResizeInPlace ==
    [][(last'.op = "Resize" /\ vec[last'.v].size_ < last'.n
            /\ last'.n <= vec[last'.v].capacity_)
        => LET v == last'.v
           IN  /\ vec'[v].size_ = last'.n
               /\ vec'[v].capacity_ = vec[v].capacity_
               /\ \A i \in 0..(vec[v].size_ - 1) :
                     Rd(heap', vec'[v].items_, i) = Rd(heap, vec[v].items_, i)
               /\ \A i \in vec[v].size_..(last'.n - 1) :
                     Rd(heap', vec'[v].items_, i) = DefaultValue]_vars

\* C5: Resize(n) followed by Resize(m) with m <= n leaves size m and a
\* capacity not below the one after Resize(n).
C5_ResizeTwice ==
    [][(last.op = "Resize" /\ last'.op = "Resize" /\ last'.v = last.v
            /\ last'.n <= last.n)
        => /\ vec'[last'.v].size_ = last'.n
           /\ vec'[last'.v].capacity_ >= vec[last'.v].capacity_]_vars

\* C6: Resize(new_size) with new_size > capacity sets the size to new_size,
\* keeps the elements [0, old size), and leaves Type() in [old size, new_size),
\* whatever the dead slots held.
C6_ResizeGrow ==
    [][(last'.op = "Resize" /\ last'.n > vec[last'.v].capacity_)
        => LET v == last'.v
           IN  /\ vec'[v].size_ = last'.n
               /\ \A i \in 0..(vec[v].size_ - 1) :
                     Rd(heap', vec'[v].items_, i) = Rd(heap, vec[v].items_, i)
               /\ \A i \in vec[v].size_..(last'.n - 1) :
                     Rd(heap', vec'[v].items_, i) = DefaultValue]_vars

\* C7: Resize(new_size) with new_size <= size sets the size to new_size and
\* changes nothing else: not the capacity, not the array the vector holds, not
\* the value of any slot of it.
C7_ResizeShrink ==
    [][(last'.op = "Resize" /\ last'.n <= vec[last'.v].size_)
        => LET v == last'.v
           IN  /\ vec'[v].size_ = last'.n
               /\ vec'[v].capacity_ = vec[v].capacity_
               /\ vec'[v].items_ = vec[v].items_
               /\ Block(heap', vec'[v]) = Block(heap, vec[v])]_vars

\* C8: PushBack(item), by copy or by move, adds 1 to the size, puts item at
\* the old size, keeps the elements before it, and leaves the capacity as it
\* was or at least doubles it.
C8_PushBack ==
    [][(last'.op \in {"PushBack", "PushBackMove"})
        => LET v == last'.v
           IN  /\ vec'[v].size_ = vec[v].size_ + 1
               /\ Rd(heap', vec'[v].items_, vec[v].size_) = last'.x
               /\ InBlock(heap', vec'[v].items_, vec[v].size_)
               /\ \A i \in 0..(vec[v].size_ - 1) :
                     Rd(heap', vec'[v].items_, i) = Rd(heap, vec[v].items_, i)
               /\ \/ vec'[v].capacity_ = vec[v].capacity_
                  \/ vec'[v].capacity_ >= 2 * vec[v].capacity_]_vars

\* A PushBack on a full vector of capacity 2 has acted: the capacity is 4.
C8_Witness ==
    /\ last.op \in {"PushBack", "PushBackMove"}
    /\ last.osize = 2 /\ last.ocap = 2
    /\ vec[last.v].capacity_ = 4
    /\ last.x # DefaultValue

\* C9: Insert(begin() + k, value), by copy or by move, leaves the live
\* sequence s[0..k), value, s[k..size), adds 1 to the size and returns the
\* position k, for both element types.
C9_Insert ==
    [][(last'.op \in {"Insert", "InsertMove"})
        => LET v == last'.v
           IN  /\ vec'[v].size_ = vec[v].size_ + 1
               /\ LiveSeq(heap', vec'[v]) = InsertAt(LiveSeq(heap, vec[v]), last'.n, last'.x)
               /\ last'.ret = last'.n]_vars

\* C10: Erase(begin() + k) leaves the live sequence without its element k,
\* takes 1 from the size, keeps the capacity and returns the position k.
C10_Erase ==
    [][(last'.op = "Erase")
        => LET v == last'.v
           IN  /\ vec'[v].size_ = vec[v].size_ - 1
               /\ vec'[v].capacity_ = vec[v].capacity_
               /\ LiveSeq(heap', vec'[v]) = RemoveAt(LiveSeq(heap, vec[v]), last'.n)
               /\ last'.ret = last'.n
               /\ (last'.n = vec[v].size_ - 1) => last'.ret = vec'[v].size_]_vars

\* An Erase of the first of three elements, the others differing, has acted.
C10_Witness ==
    /\ last.op = "Erase"
    /\ last.n = 0 /\ last.osize = 3
    /\ Rd(heap, vec[last.v].items_, 0) # Rd(heap, vec[last.v].items_, 1)

\* C11: after Reserve(n) with n >= size, each of the next n - size PushBack
\* calls keeps the array the vector holds and its capacity (no reallocation).
C11_ReservedPushBack ==
    [][(last'.op \in {"PushBack", "PushBackMove"} /\ last.budget > 0)
        => LET v == last'.v
           IN  /\ vec'[v].items_ = vec[v].items_
               /\ vec'[v].capacity_ = vec[v].capacity_
               /\ vec'[v].size_ = vec[v].size_ + 1]_vars

\* The third of the four PushBack calls that follow Reserve(MaxCap) has acted
\* on a vector that is not empty.
C11_Witness ==
    /\ last.op \in {"PushBack", "PushBackMove"}
    /\ last.budget = 1
    /\ vec[last.v].size_ = MaxCap - 1
    /\ vec[last.v].capacity_ = MaxCap
    /\ Rd(heap, vec[last.v].items_, 0) # DefaultValue

\* C12: Reserve(new_capacity) with new_capacity > capacity sets the capacity
\* to new_capacity and keeps the size and the live elements; with
\* new_capacity <= capacity it changes nothing: not the size, the capacity,
\* the array the vector holds, or any slot.
C12_Reserve ==
    [][(last'.op = "Reserve")
        => LET v == last'.v
           IN  IF last'.n > vec[v].capacity_
               THEN /\ vec'[v].capacity_ = last'.n
                    /\ vec'[v].size_ = vec[v].size_
                    /\ LiveSeq(heap', vec'[v]) = LiveSeq(heap, vec[v])
                    /\ \A i \in 0..(vec[v].size_ - 1) : InBlock(heap', vec'[v].items_, i)
               ELSE /\ vec'[v] = vec[v]
                    /\ heap' = heap]_vars

\* A Reserve that reallocated a vector of two different elements has acted.
C12_Witness ==
    /\ last.op = "Reserve"
    /\ last.n > last.ocap
    /\ last.osize = 2
    /\ vec[last.v].capacity_ = last.n
    /\ Rd(heap, vec[last.v].items_, 0) # Rd(heap, vec[last.v].items_, 1)

\* C13: after b is move-constructed from a, or a is move-assigned to another
\* vector b, b has the live elements, the size and the capacity a had, and a
\* has size 0 and capacity 0.
C13_MoveRoundTrip ==
    [][(last'.op \in {"CtorMove", "MoveAssign"} /\ last'.v # last'.w)
        => LET b == last'.v
               a == last'.w
           IN  /\ vec'[b].size_ = vec[a].size_
               /\ vec'[b].capacity_ = vec[a].capacity_
               /\ LiveSeq(heap', vec'[b]) = LiveSeq(heap, vec[a])
               /\ \A i \in 0..(vec[a].size_ - 1) : InBlock(heap', vec'[b].items_, i)
               /\ vec'[a].size_ = 0
               /\ vec'[a].capacity_ = 0]_vars

\* A move assignment of a full vector whose first element is not Type() has
\* acted: the target holds the elements, the source holds no array.
C13_Witness ==
    /\ last.op = "MoveAssign"
    /\ last.v # last.w
    /\ vec[last.v].size_ = MaxCapPair
    /\ Rd(heap, vec[last.v].items_, 0) # DefaultValue
    /\ vec[last.w].items_ = nullptr

\* C14: move construction and move assignment never throw: neither leaves
\* by an exception, and neither allocates an array.
C14_MoveNoThrow ==
    [][/\ last'.op # "CtorMoveThrow"
       /\ (last'.op \in {"CtorMove", "MoveAssign"})
             => \A b \in BlockIds : heap'[b] # <<>> => heap[b] # <<>>]_vars

\* C15: the copy c the copy constructor makes of a equals a and holds another
\* array than a; and the first operation on one of the two after the copy
\* (any operation of SimpleVector on that vector alone) leaves the size, the
\* capacity, the array and the elements of the other unchanged.
C15_CopyIndependent ==
    [][/\ (last'.op = "CtorCopy")
             => LET c == last'.v
                    a == last'.w
                IN  /\ VecEqual(heap', vec'[c], vec'[a])
                    /\ vec'[c].items_ = nullptr \/ vec'[c].items_ # vec'[a].items_
                    /\ vec'[a] = vec[a]
                    /\ LiveSeq(heap', vec'[a]) = LiveSeq(heap, vec[a])
       /\ \A x \in {last.v, last.w} :
             (last.op = "CtorCopy" /\ Unary(x, EnvPair))
                => \A w \in {last.v, last.w} \ {x} :
                      /\ vec'[w] = vec[w]
                      /\ LiveSeq(heap', vec'[w]) = LiveSeq(heap, vec[w])]_vars

\* C16: a copy assignment that fails while it builds the temporary copy (in
\* the allocation or in the copy of an element) leaves the target with the
\* size, capacity, array and elements it had, and the source and the rest of
\* the heap unchanged; one that succeeds leaves the target equal to the source.
C16_CopyAssignStrong ==
    [][/\ (last'.op = "CopyAssignThrow")
             => /\ vec' = vec
                /\ heap' = heap
       /\ (last'.op = "CopyAssign")
             => LET v == last'.v
                    w == last'.w
                IN  /\ vec'[v].size_ = vec[w].size_
                    /\ LiveSeq(heap', vec'[v]) = LiveSeq(heap, vec[w])
                    /\ \A i \in 0..(vec[w].size_ - 1) : InBlock(heap', vec'[v].items_, i)
                    /\ v # w => vec'[w] = vec[w] /\ Block(heap', vec'[w]) = Block(heap, vec[w])]_vars

\* A copy assignment of a full vector of a class type to a vector with other
\* elements has failed.
C16_Witness ==
    /\ last.op = "CopyAssignThrow"
    /\ typeKind = "class"
    /\ vec[last.w].size_ = MaxCapPair
    /\ vec[last.v].size_ > 0
    /\ Rd(heap, vec[last.v].items_, 0) # Rd(heap, vec[last.w].items_, 0)

\* C17: At(index) throws std::out_of_range exactly when index >= size (also
\* when size <= index < capacity), returns the element at index otherwise,
\* and in both cases leaves the size, the capacity and every slot unchanged.
C17_At ==
    [][(last'.op \in {"At", "AtThrow"})
        => LET v == last'.v
           IN  /\ last'.op = "AtThrow" <=> last'.n >= vec[v].size_
               /\ last'.op = "At"
                     => /\ InBlock(heap, vec[v].items_, last'.n)
                        /\ last'.x = LiveSeq(heap, vec[v])[last'.n + 1]
               /\ vec' = vec
               /\ heap' = heap]_vars

\* At has thrown for the index of a dead slot whose value is not Type().
C17_Witness ==
    /\ last.op = "AtThrow"
    /\ last.n >= vec[last.v].size_
    /\ last.n < vec[last.v].capacity_
    /\ Rd(heap, vec[last.v].items_, last.n) # DefaultValue

\* C18: the capacity of every constructed vector is the number of elements
\* of the array it holds, and it holds no array exactly when its capacity
\* is 0, also after it was moved from.
C18_CapacityIsBlockLength ==
    \A v \in live :
        /\ vec[v].items_ = nullptr <=> vec[v].capacity_ = 0
        /\ Len(Block(heap, vec[v])) = vec[v].capacity_

\* C19: no operation called within its preconditions reads or writes a
\* position outside the array it accesses.
C19_NoOutOfBounds == ~last.oob

\* C20: no assert of the source fails in an operation called within its
\* preconditions; in particular assert(first < last) of Fill holds on every
\* call Resize makes.
C20_AssertsHold == ~last.af

====
